---- MODULE Spec2Model ----
(***************************************************************************)
(* Model of convert.py: a script run inside a 3D host application that     *)
(* resets the host scene, imports one GLB asset and exports the scene as   *)
(* USDZ.  The script is three module-level statements; each is one call    *)
(* into the host.  A host call either returns or raises; an exception is   *)
(* not caught anywhere in the script, so it ends the script.               *)
(*                                                                         *)
(* The host (scene, importer, exporter) and the filesystem are the         *)
(* script's environment.  They are modelled by what the script's calls     *)
(* ask of them: the scene is a set of objects, a file is a record of what  *)
(* it holds, import adds the asset's objects to the scene, export writes   *)
(* the scene's objects with the requested attributes.                      *)
(***************************************************************************)
EXTENDS Naturals, Sequences, FiniteSets, TLC

VARIABLES
    pc,        \* the statement the script is at: "reset", "import", "export", or "done" / "failed"
    scene,     \* the host's singleton scene: a set of objects
    fs,        \* the filesystem: path -> file
    calls,     \* the host operations invoked so far in this run, in order
    io,        \* the file accesses the host made for the script in this run, in order
    exc,       \* the exception that ended the script ("none" while there is none)
    argv,      \* the process's command-line arguments (sys is imported, never used)
    environ,   \* the process's environment variables
    fs0,       \* the filesystem as it was when this run started
    run,       \* number of this run of the script
    prev       \* summary of the previous run of the script

vars == <<pc, scene, fs, calls, io, exc, argv, environ, fs0, run, prev>>

(* ------------------------------ bounds --------------------------------- *)

\* The script is run this many times in succession.
MaxRuns == 2

(* --------------------------- the host's data --------------------------- *)

\* An object of a scene or of an asset: a mesh with its topology and whether
\* it carries per-vertex normals and material bindings.
Obj(n, v, f, nrm, mat) ==
    [name |-> n, verts |-> v, faces |-> f, normals |-> nrm, materials |-> mat]

Cube == Obj("Cube", 8, 6, TRUE, TRUE)
Old == Obj("Old", 5, 4, TRUE, FALSE)

\* What the host's scene may hold when the script starts.
StartupScenes == { {}, {Cube}, {Old} }

\* The host's factory startup scene (what a reset without use_empty loads).
FactoryStartup == {Cube}

\* Files.
NoFile == [kind |-> "none", objs |-> {}]
Corrupt == [kind |-> "bad", objs |-> {}]
Glb(objs) == [kind |-> "glb", objs |-> objs]
Usdz(objs) == [kind |-> "usdz", objs |-> objs]

Shuttle == { Obj("shuttle", 4, 2, TRUE, TRUE) }
TwoPart == { Obj("hull", 3, 1, FALSE, TRUE), Obj("wing", 6, 4, TRUE, FALSE) }

\* What the input path may hold: nothing, a malformed file, a valid GLB.
InputFiles == { NoFile, Corrupt, Glb(Shuttle), Glb(TwoPart) }

\* What the output path may hold before a run.
PriorOutputs == { NoFile, Usdz({Old}) }

Argvs == { <<"blender">>, <<"blender", "other.glb">> }
Environs == { "unset", "GLB_PATH=other.glb" }

\* The errors the host raises.
ImportError(file) == IF file.kind = "none" THEN "file_not_found" ELSE "invalid_glb"
HostErrors == { "host_error" }

(* ------------------------ the script's literals ------------------------ *)

\* Paths are sequences of path components.
\* Variant: the input path taken from the command line when one is given.
glb_path_from_argv ==
    IF Len(argv) > 1
    THEN <<argv[2]>>
    ELSE <<"Sources", "MusicalWallpaper", "Resources", "Meshy_AI_shuttle_0227101350_texture.glb">>

glb_path ==
    <<"Sources", "MusicalWallpaper", "Resources", "Meshy_AI_shuttle_0227101350_texture.glb">>

\* Variant: the export aimed at the input path.
usdz_path_is_glb_path ==
    <<"Sources", "MusicalWallpaper", "Resources", "Meshy_AI_shuttle_0227101350_texture.glb">>

usdz_path ==
    <<"Sources", "MusicalWallpaper", "Resources", "Meshy_AI_shuttle_0227101350_texture.usdz">>

\* Variant: the reset loading the factory startup scene instead of an empty one.
use_empty_false == FALSE

use_empty == TRUE

export_normals == TRUE

\* Variant: materials left out of the export.
export_materials_false == FALSE

export_materials == TRUE

(* ------------------------- the host operations ------------------------- *)

\* bpy.ops.wm.read_factory_settings(use_empty=...): the scene it leaves.
read_factory_settings(empty) == IF empty THEN {} ELSE FactoryStartup

\* bpy.ops.import_scene.gltf(filepath=...): the importer adds the asset's
\* objects to whatever the scene holds.
import_scene_gltf(sc, file) == sc \cup file.objs

\* bpy.ops.wm.usd_export(filepath=..., export_normals=..., export_materials=...):
\* the file written for a scene.  Normals and materials are written only
\* when the flag asks for them.
usd_export(sc, normals, materials) ==
    Usdz({ [o EXCEPT !.normals = o.normals /\ normals,
                     !.materials = o.materials /\ materials] : o \in sc })

(* ------------------------ the script's control ------------------------- *)

\* Variant: the reset statement missing.
first_statement_import == "import"

\* The first statement that calls the host.
first_statement == "reset"

\* Variant: the export statement placed before the import statement.
next_statement_export_first(s) ==
    CASE s = "reset" -> "export"
      [] s = "export" -> "import"
      [] s = "import" -> "done"

\* Variant: the three statements in a loop.
next_statement_loop(s) ==
    CASE s = "reset" -> "import"
      [] s = "import" -> "export"
      [] s = "export" -> "reset"

\* The statement after s: the calls are module-level statements in sequence.
next_statement(s) ==
    CASE s = "reset" -> "import"
      [] s = "import" -> "export"
      [] s = "export" -> "done"

\* Variant: the exception swallowed (try/except: pass) and the next statement run.
on_exception_continue(s) == next_statement(s)

\* Variant: the failed statement retried.
on_exception_retry(s) == s

\* Where the script is after statement s raised: no try/except, the
\* exception ends the script.
on_exception(s) == "failed"

Terminated == pc \in {"done", "failed"}

\* The file at path p (a path that holds nothing reads as NoFile).
File(f, p) == IF p \in DOMAIN f THEN f[p] ELSE NoFile

\* The filesystem f with path p holding file c.
WriteFile(f, p, c) == (p :> c) @@ f

\* The record of one host call.
Call(op, kwargs, result) ==
    [op |-> op, kwargs |-> kwargs, sceneBefore |-> scene, result |-> result]

\* The path arguments of the calls made, in call order.
PathsOf(cs) ==
    [i \in 1..Len(cs) |->
        <<cs[i].op, IF "filepath" \in DOMAIN cs[i].kwargs THEN cs[i].kwargs.filepath ELSE <<>> >>]

NoRun ==
    [status |-> "none", input |-> NoFile, output |-> NoFile,
     argv |-> <<>>, environ |-> "unset", paths |-> <<>>]

(* ------------------------------- Init ---------------------------------- *)

\* The host process has started and is about to execute the script.
Init ==
    /\ argv \in Argvs
    /\ environ \in Environs
    /\ scene \in StartupScenes
    /\ \E g \in InputFiles, u \in PriorOutputs :
          fs = WriteFile(WriteFile(<<>>, usdz_path, u), glb_path, g)
    /\ fs0 = fs
    /\ pc = first_statement
    /\ calls = <<>>
    /\ io = <<>>
    /\ exc = "none"
    /\ run = 1
    /\ prev = NoRun

(* ------------------------------ actions -------------------------------- *)

\* bpy.ops.wm.read_factory_settings(use_empty=True)
Reset ==
    /\ pc = "reset"
    /\ \/ /\ scene' = read_factory_settings(use_empty)
          /\ calls' = Append(calls, Call("wm.read_factory_settings",
                                         [use_empty |-> use_empty], "FINISHED"))
          /\ pc' = next_statement(pc)
          /\ exc' = exc
       \/ \E e \in HostErrors :
          /\ scene' = scene
          /\ calls' = Append(calls, Call("wm.read_factory_settings",
                                         [use_empty |-> use_empty], e))
          /\ pc' = on_exception(pc)
          /\ exc' = e
    /\ UNCHANGED <<fs, io, argv, environ, fs0, run, prev>>

\* bpy.ops.import_scene.gltf(filepath=glb_path)
Import ==
    /\ pc = "import"
    /\ LET file == File(fs, glb_path) IN
       \/ /\ file.kind = "glb"
          /\ scene' = import_scene_gltf(scene, file)
          /\ calls' = Append(calls, Call("import_scene.gltf",
                                         [filepath |-> glb_path], "FINISHED"))
          /\ pc' = next_statement(pc)
          /\ exc' = exc
       \/ \E e \in (IF file.kind = "glb" THEN HostErrors ELSE {ImportError(file)}) :
          /\ scene' = scene
          /\ calls' = Append(calls, Call("import_scene.gltf",
                                         [filepath |-> glb_path], e))
          /\ pc' = on_exception(pc)
          /\ exc' = e
    /\ io' = Append(io, [access |-> "read", path |-> glb_path])
    /\ UNCHANGED <<fs, argv, environ, fs0, run, prev>>

\* bpy.ops.wm.usd_export(filepath=usdz_path, export_normals=True, export_materials=True)
Export ==
    /\ pc = "export"
    /\ LET kwargs == [filepath |-> usdz_path,
                      export_normals |-> export_normals,
                      export_materials |-> export_materials] IN
       \/ /\ fs' = WriteFile(fs, usdz_path,
                              usd_export(scene, export_normals, export_materials))
          /\ io' = Append(io, [access |-> "write", path |-> usdz_path])
          /\ calls' = Append(calls, Call("wm.usd_export", kwargs, "FINISHED"))
          /\ pc' = next_statement(pc)
          /\ exc' = exc
       \/ \E e \in HostErrors :
          \* the exporter fails before it touches the file, or part-way through
          /\ \/ /\ fs' = fs
                /\ io' = io
             \/ /\ fs' = WriteFile(fs, usdz_path, Corrupt)
                /\ io' = Append(io, [access |-> "write", path |-> usdz_path])
          /\ calls' = Append(calls, Call("wm.usd_export", kwargs, e))
          /\ pc' = on_exception(pc)
          /\ exc' = e
    /\ UNCHANGED <<scene, argv, environ, fs0, run, prev>>

\* The script has ended; the host is started again on the script, with
\* whatever scene, arguments and environment it is started with.  Between
\* runs the producer of the input asset may have replaced it.
StartRun ==
    /\ Terminated
    /\ run < MaxRuns
    /\ run' = run + 1
    /\ argv' \in Argvs
    /\ environ' \in Environs
    /\ scene' \in StartupScenes
    /\ \E g \in InputFiles : fs' = WriteFile(fs, glb_path', g)
    /\ fs0' = fs'
    /\ prev' = [status |-> pc, input |-> File(fs0, glb_path), output |-> File(fs, usdz_path),
                argv |-> argv, environ |-> environ, paths |-> PathsOf(calls)]
    /\ pc' = first_statement
    /\ calls' = <<>>
    /\ io' = <<>>
    /\ exc' = "none"

Next == Reset \/ Import \/ Export \/ StartRun

Spec == Init /\ [][Next]_vars

\* The script's statements execute one after another without waiting: a
\* host call that is enabled is made.
Script == Reset \/ Import \/ Export

FairSpec == Spec /\ WF_vars(Script)

(* ------------------------- helpers for claims -------------------------- *)

RESET == "wm.read_factory_settings"
IMPORT == "import_scene.gltf"
EXPORT == "wm.usd_export"

CallsOf(op) == { i \in 1..Len(calls) : calls[i].op = op }
Invoked(op) == CallsOf(op) # {}
Returned(i) == calls[i].result = "FINISHED"
AllReturned == \A i \in 1..Len(calls) : Returned(i)
Writes == { i \in 1..Len(io) : io[i].access = "write" }

InputAtStart == File(fs0, glb_path)
OutputAtStart == File(fs0, usdz_path)
Output == File(fs, usdz_path)

\* Mesh topology of a set of objects: each mesh with its vertex and face count.
Topology(objs) == { <<o.name, o.verts, o.faces>> : o \in objs }

\* The directory of a path.
Dirname(p) == SubSeq(p, 1, Len(p) - 1)

(* ------------------------------- claims -------------------------------- *)

\* C1: when the input GLB path holds no file at the start of a run, the run
\* never gets past the import step: an import that is invoked raises the
\* host's file-not-found error and the script has failed, the run never
\* ends "done", and export is never invoked.  And in every run where import
\* raised (missing or malformed input, or a host error), export has not been
\* invoked, nothing has been written, and the output path holds exactly the
\* file it held when the run started.
C1_ImportFailureLeavesOutput ==
    /\ InputAtStart.kind = "none" =>
          /\ pc \notin {"export", "done"}
          /\ ~Invoked(EXPORT)
          /\ \A i \in CallsOf(IMPORT) :
                calls[i].result = "file_not_found" /\ pc = "failed"
    /\ \A i \in CallsOf(IMPORT) :
          ~Returned(i) =>
             /\ pc = "failed"
             /\ ~Invoked(EXPORT)
             /\ Writes = {}
             /\ Output = OutputAtStart

\* C1 witness: the input is missing, import was invoked and raised, and the
\* output path still holds the USDZ file that was there before the run.
C1_Witness ==
    /\ InputAtStart.kind = "none"
    /\ Invoked(IMPORT)
    /\ pc = "failed"
    /\ exc = "file_not_found"
    /\ OutputAtStart.kind = "usdz"
    /\ Output = OutputAtStart

\* C2: the host operations invoked in a run are a prefix of reset, import,
\* export: each at most once, in that order, and an operation is invoked
\* only after every earlier one has returned successfully.
C2_FixedOrder ==
    /\ Len(calls) <= 3
    /\ \A i \in 1..Len(calls) : calls[i].op = <<RESET, IMPORT, EXPORT>>[i]
    /\ \A i \in 1..Len(calls) : i < Len(calls) => Returned(i)
    /\ pc = "import" => Len(calls) = 1
    /\ pc = "export" => Len(calls) = 2
    /\ pc = "done" => Len(calls) = 3

\* C2 witness: a run that made all three calls.
C2_Witness == pc = "done" /\ Len(calls) = 3 /\ AllReturned

\* C3: a host operation that raised is the last one invoked in its run, the
\* script is then in its failed state with exactly the error the host
\* raised, and it is never "done"; the script is failed only that way.
C3_FailureEndsScript ==
    /\ \A i \in 1..Len(calls) :
          ~Returned(i) => /\ i = Len(calls)
                          /\ pc = "failed"
                          /\ exc = calls[i].result
    /\ pc = "failed" => Len(calls) >= 1 /\ ~Returned(Len(calls))
    /\ pc # "failed" => exc = "none"
    /\ pc = "done" => AllReturned

\* C3 witness: import raised on a malformed asset after reset had returned.
C3_Witness ==
    /\ pc = "failed"
    /\ Len(calls) = 2
    /\ exc = "invalid_glb"

\* What C4 promises of a finished run: all three steps were made and the
\* output path holds a USDZ file with the topology of the source GLB, the
\* exported scene being exactly the imported asset's objects.
C4_Converted ==
    /\ pc = "done"
    /\ Len(calls) = 3
    /\ calls[3].sceneBefore = InputAtStart.objs
    /\ Output.kind = "usdz"
    /\ Topology(Output.objs) = Topology(InputAtStart.objs)

SecondRunSameInput ==
    /\ prev.status # "none"
    /\ Terminated
    /\ prev.input = InputAtStart
    /\ File(fs, glb_path) = InputAtStart

C6_ExportFlags ==
    /\ \A i \in CallsOf(EXPORT) :
          /\ calls[i].kwargs.export_normals = TRUE
          /\ calls[i].kwargs.export_materials = TRUE
          /\ Returned(i) =>
                \A o \in calls[i].sceneBefore :
                    \E w \in Output.objs :
                        /\ w.name = o.name
                        /\ w.normals = o.normals
                        /\ w.materials = o.materials

\* C6 witness: an export of a scene holding a mesh with normals and a mesh
\* with materials has returned.
C6_Witness ==
    /\ pc = "done"
    /\ \E i \in CallsOf(EXPORT) :
          /\ \E o \in calls[i].sceneBefore : o.normals
          /\ \E o \in calls[i].sceneBefore : o.materials
          /\ \E w \in Output.objs : w.normals
          /\ \E w \in Output.objs : w.materials

\* C7: the scene is empty when import is invoked, and when export is
\* invoked the scene holds exactly the objects of the imported GLB.
C7_SceneFromImportOnly ==
    /\ \A i \in CallsOf(IMPORT) : calls[i].sceneBefore = {}
    /\ \A i \in CallsOf(EXPORT) : calls[i].sceneBefore = InputAtStart.objs

\* C7 witness: the run started with a non-empty scene and reached export.
C7_Witness ==
    /\ Invoked(EXPORT)
    /\ calls[1].op = RESET
    /\ calls[1].sceneBefore # {}

\* C8: the input and output paths differ; the input file is as it was when
\* the run started; the only file read is the input and the only file
\* written is the output; the output is written at most once in a run and
\* only by export; and what a completed run leaves at the output path is
\* determined by the input alone (not by what the output path held).
C8_InputReadOnlyOutputWriteOnly ==
    /\ glb_path # usdz_path
    /\ File(fs, glb_path) = InputAtStart
    /\ \A i \in 1..Len(io) :
          /\ io[i].access = "read" => io[i].path = glb_path /\ io[i].path # usdz_path
          /\ io[i].access = "write" => io[i].path = usdz_path /\ io[i].path # glb_path
    /\ Cardinality(Writes) <= 1
    /\ Writes # {} => Invoked(EXPORT)
    /\ Writes = {} => Output = OutputAtStart
    /\ pc = "done" => Output = usd_export(InputAtStart.objs, TRUE, TRUE)

\* C8 witness: a completed run that replaced an older file at the output path.
C8_Witness ==
    /\ pc = "done"
    /\ OutputAtStart.kind = "usdz"
    /\ Output # OutputAtStart
    /\ Cardinality(Writes) = 1

\* C9: the path arguments of import and export are the same in this run as
\* in the previous one, whatever the arguments and environment of the two
\* runs, and both lie in the one resource directory.
C9_FixedPaths ==
    /\ \A i \in 1..Len(calls) :
          i <= Len(prev.paths) => PathsOf(calls)[i] = prev.paths[i]
    /\ \A i \in CallsOf(IMPORT) \cup CallsOf(EXPORT) :
          Dirname(calls[i].kwargs.filepath) = <<"Sources", "MusicalWallpaper", "Resources">>
    /\ \A i \in CallsOf(IMPORT), j \in CallsOf(EXPORT) :
          /\ Dirname(calls[i].kwargs.filepath) = Dirname(calls[j].kwargs.filepath)
          /\ calls[i].kwargs.filepath # calls[j].kwargs.filepath

\* C9 witness: two completed runs whose arguments and environment differ.
C9_Witness ==
    /\ prev.status = "done"
    /\ pc = "done"
    /\ prev.argv # argv
    /\ prev.environ # environ
    /\ Len(prev.paths) = 3

\* C10: every run reaches a final state ("done" or "failed"), never having
\* made more than three host calls.
C10_Terminates ==
    /\ [](Len(calls) <= 3)
    /\ [](~Terminated => <>Terminated)

\* C10 witness: a run that ended only at its third host call.
C10_Witness ==
    /\ pc = "failed"
    /\ Len(calls) = 3
    /\ calls[3].op = EXPORT

====
